---- MODULE Spec2Model ----
(***************************************************************************)
(* A model of the enum_meta crate (src/src/lib.rs): the Meta trait and the *)
(* two macros that implement it for an enum, meta! (a match evaluated on   *)
(* every call) and lazy_meta! (a lazy_static HashMap keyed by the          *)
(* variant's discriminant, populated on first access).                     *)
(*                                                                         *)
(* A behaviour is one program: an enum, one macro invocation (mechanism,   *)
(* metadata type, table of rows), the build of that invocation, and then   *)
(* calls of meta and all from a few threads.                               *)
(***************************************************************************)
EXTENDS Integers, Sequences, FiniteSets, TLC

\* Bounds of the model.
MaxRows == 3        \* rows in a table
NumThreads == 2     \* calling threads
MaxCalls == 2       \* calls of meta and all in one behaviour

\* The enum the macros are applied to, in declaration order.
ColourDecl == <<"Red", "Orange">>

Colour == {ColourDecl[i] : i \in 1..Len(ColourDecl)}

Threads == 1..NumThreads

\* std::mem::discriminant of a fieldless variant: its position in the enum.
DiscriminantSame(v) == 0

discriminant(v) == (CHOOSE i \in 1..Len(ColourDecl) : ColourDecl[i] = v) - 1

(***************************************************************************)
(* Row expressions ($return_value / $return_expr): the macros take any     *)
(* expression of the metadata type.  A literal; a string formatted from a  *)
(* literal number and a literal label as in the crate doc,                 *)
(* format!("{}:{}", 1, "Red"); an expression that reads and advances a     *)
(* static counter, format!("{}:{}", COUNTER.fetch_add(1, SeqCst), "Red");  *)
(* or an expression that panics.                                           *)
(***************************************************************************)
Lit(x) == [kind |-> "lit", num |-> 0, val |-> x]

Format(n, label) == [kind |-> "format", num |-> n, val |-> label]

Counted(label) == [kind |-> "counted", num |-> 0, val |-> label]

Panic == [kind |-> "panic", num |-> 0, val |-> ""]

ReturnTypes == {"str", "pair"}

ExprsOf(ty) ==
    IF ty = "str"
    THEN {Format(2, "Orange"), Counted("Red"), Panic}
    ELSE {Lit(<<"Red", 10>>), Lit(<<"Orange", 11>>)}

Rows(ty) == [variant : Colour, expr : ExprsOf(ty)]

Tables(ty) == UNION {[1..n -> Rows(ty)] : n \in 0..MaxRows}

\* The value of an expression that returns, evaluated when the static
\* counter is c: the literal, or the row's number (format) or the counter
\* (counted) and the label formatted as "{}:{}".
EvalVal(e, c) ==
    IF e.kind = "format" THEN ToString(e.num) \o ":" \o e.val
    ELSE IF e.kind = "counted" THEN ToString(c) \o ":" \o e.val
    ELSE e.val

\* The static counter after the evaluation: fetch_add(1) in a counted row.
EvalCounter(e, c) == IF e.kind = "counted" THEN c + 1 ELSE c

VARIABLES
    mech,         \* "meta" or "lazy_meta": the macro invoked
    return_type,  \* $return_type
    table,        \* the rows, in order
    build,        \* "declared", "built" or "rejected"
    counter,      \* the static counter the counted rows read and advance
    evals,        \* evals[i]: how often row i's expression has been evaluated
    ncalls,       \* ncalls[v]: how many calls of meta!'s meta on v were made
    calls,        \* calls of meta and all begun
    once,         \* the state of $storage's Once
    runs,         \* how often the initializer of $storage has been entered
    m,            \* m[t]: the initializer's local map in thread t
    storage,      \* $storage: the HashMap, once initialized
    nextAddr,     \* the next free map slot
    pc,           \* pc[t]: where thread t is
    arg,          \* arg[t]: self of thread t's meta call
    row,          \* row[t]: the next row thread t's initializer evaluates
    ret,          \* ret[t]: the outcome of thread t's last call
    returned      \* every value a meta call has returned

vars == <<mech, return_type, table, build, counter, evals, ncalls, calls, once,
          runs, m, storage, nextAddr, pc, arg, row, ret, returned>>

EmptyMap == [k \in {} |-> 0]

NoRet == [op |-> "none", v |-> "", kind |-> "none", val |-> "", ref |-> 0]

Init ==
    /\ mech \in {"meta", "lazy_meta"}
    /\ return_type \in ReturnTypes
    /\ table \in Tables(return_type)
    /\ build = "declared"
    /\ counter = 0
    /\ evals = [i \in 1..Len(table) |-> 0]
    /\ ncalls = [v \in Colour |-> 0]
    /\ calls = 0
    /\ once = "INCOMPLETE"
    /\ runs = 0
    /\ m = [t \in Threads |-> EmptyMap]
    /\ storage = EmptyMap
    /\ nextAddr = 1
    /\ pc = [t \in Threads |-> "idle"]
    /\ arg = [t \in Threads |-> ColourDecl[1]]
    /\ row = [t \in Threads |-> 0]
    /\ ret = [t \in Threads |-> NoRet]
    /\ returned = {}

\* rustc's exhaustiveness check of a match whose arms are the rows' variants.
Exhaustive == \A v \in Colour : \E i \in 1..Len(table) : table[i].variant = v

ExhaustiveUnchecked == TRUE

MatchChecked == Exhaustive

\* Building the macro invocation: the match of meta (meta!) or of meta_check
\* (lazy_meta!) is rejected unless it covers every variant.
Build ==
    /\ build = "declared"
    /\ build' = IF MatchChecked THEN "built" ELSE "rejected"
    /\ UNCHANGED <<mech, return_type, table, counter, evals, ncalls, calls, once,
                   runs, m, storage, nextAddr, pc, arg, row, ret, returned>>

\* The arm a match on v takes: the first row whose pattern is v (0: none).
MatchArmLast(v) ==
    IF \E i \in 1..Len(table) : table[i].variant = v
    THEN CHOOSE i \in 1..Len(table) :
             /\ table[i].variant = v
             /\ \A j \in (i + 1)..Len(table) : table[j].variant # v
    ELSE 0

MatchArm(v) ==
    IF \E i \in 1..Len(table) : table[i].variant = v
    THEN CHOOSE i \in 1..Len(table) :
             /\ table[i].variant = v
             /\ \A j \in 1..(i - 1) : table[j].variant # v
    ELSE 0

Value(op, v, val, ref) ==
    [op |-> op, v |-> v, kind |-> "value", val |-> val, ref |-> ref]

\* The call unwound with a panic; why is the panic's origin.
Panicked(op, v, why) ==
    [op |-> op, v |-> v, kind |-> "panic", val |-> why, ref |-> 0]

(***************************************************************************)
(* meta!                                                                   *)
(***************************************************************************)

\* meta of meta!: match self, evaluate the arm's expression, return its value.
MetaCached(t, v) ==
    /\ mech = "meta" /\ build = "built"
    /\ pc[t] = "idle" /\ calls < MaxCalls
    /\ MatchArm(v) # 0
    /\ LET i == MatchArm(v)
           e == table[i].expr
           seen == {r \in returned : r.v = v}
       IN  IF seen # {}
           THEN /\ ret' = [ret EXCEPT ![t] =
                              Value("meta", v, (CHOOSE r \in seen : TRUE).val, 0)]
                /\ UNCHANGED <<evals, counter, returned>>
           ELSE /\ evals' = [evals EXCEPT ![i] = @ + 1]
                /\ counter' = EvalCounter(e, counter)
                /\ IF e.kind = "panic"
                   THEN /\ ret' = [ret EXCEPT ![t] = Panicked("meta", v, "expr")]
                        /\ returned' = returned
                   ELSE /\ ret' = [ret EXCEPT ![t] =
                                      Value("meta", v, EvalVal(e, counter), 0)]
                        /\ returned' = returned \cup
                               {[v |-> v, val |-> EvalVal(e, counter), ref |-> 0]}
    /\ ncalls' = [ncalls EXCEPT ![v] = @ + 1]
    /\ calls' = calls + 1
    /\ UNCHANGED <<mech, return_type, table, build, once, runs, m, storage,
                   nextAddr, pc, arg, row>>

Meta(t, v) ==
    /\ mech = "meta" /\ build = "built"
    /\ pc[t] = "idle" /\ calls < MaxCalls
    /\ MatchArm(v) # 0
    /\ LET i == MatchArm(v)
           e == table[i].expr
       IN  /\ evals' = [evals EXCEPT ![i] = @ + 1]
           /\ counter' = EvalCounter(e, counter)
           /\ IF e.kind = "panic"
              THEN /\ ret' = [ret EXCEPT ![t] = Panicked("meta", v, "expr")]
                   /\ returned' = returned
              ELSE /\ ret' = [ret EXCEPT ![t] =
                                 Value("meta", v, EvalVal(e, counter), 0)]
                   /\ returned' = returned \cup
                          {[v |-> v, val |-> EvalVal(e, counter), ref |-> 0]}
    /\ ncalls' = [ncalls EXCEPT ![v] = @ + 1]
    /\ calls' = calls + 1
    /\ UNCHANGED <<mech, return_type, table, build, once, runs, m, storage,
                   nextAddr, pc, arg, row>>

\* all of either macro: vec! of the rows' variants, in order.
AllVecDeclared == ColourDecl

AllVec == [i \in 1..Len(table) |-> table[i].variant]

All(t) ==
    /\ build = "built"
    /\ pc[t] = "idle" /\ calls < MaxCalls
    /\ ret' = [ret EXCEPT ![t] = Value("all", "", AllVec, 0)]
    /\ calls' = calls + 1
    /\ UNCHANGED <<mech, return_type, table, build, counter, evals, ncalls, once,
                   runs, m, storage, nextAddr, pc, arg, row, returned>>

(***************************************************************************)
(* lazy_meta!                                                              *)
(***************************************************************************)

\* HashMap::insert: a new key takes a new slot, a present key keeps its slot
\* and has its value replaced.
Insert(map, k, val) ==
    IF k \in DOMAIN map
    THEN [map EXCEPT ![k].val = val]
    ELSE [j \in DOMAIN map \cup {k} |->
             IF j = k THEN [addr |-> nextAddr, val |-> val] ELSE map[j]]

\* Whether a caller of Once::call_once runs the initializer itself.
MayInitRacy == once \in {"INCOMPLETE", "RUNNING"}

MayInitAgain == once \in {"INCOMPLETE", "COMPLETE"}

MayInit == once = "INCOMPLETE"

\* The state a panicking initializer leaves the Once in.
PoisonRetry == "INCOMPLETE"

PoisonState == "POISONED"

\* The reference meta returns: into the map's slot.
RefOfCopy(k) == nextAddr

RefOf(k) == storage[k].addr

\* meta of lazy_meta! is entered: $storage is about to be dereferenced.
LazyMeta(t, v) ==
    /\ mech = "lazy_meta" /\ build = "built"
    /\ pc[t] = "idle" /\ calls < MaxCalls
    /\ pc' = [pc EXCEPT ![t] = "deref"]
    /\ arg' = [arg EXCEPT ![t] = v]
    /\ calls' = calls + 1
    /\ UNCHANGED <<mech, return_type, table, build, counter, evals, ncalls, once,
                   runs, m, storage, nextAddr, row, ret, returned>>

\* Deref of $storage, first caller: call_once starts the initializer
\* (let mut m = HashMap::new()).  Callers that find it running block.
LazyInit(t) ==
    /\ pc[t] = "deref"
    /\ MayInit
    /\ once' = "RUNNING"
    /\ runs' = runs + 1
    /\ m' = [m EXCEPT ![t] = EmptyMap]
    /\ row' = [row EXCEPT ![t] = 1]
    /\ pc' = [pc EXCEPT ![t] = "init"]
    /\ UNCHANGED <<mech, return_type, table, build, counter, evals, ncalls, calls,
                   storage, nextAddr, arg, ret, returned>>

\* The initializer's next m.insert(discriminant(&variant), expr).  An
\* expression that panics unwinds out of call_once and of meta.
LazyInsert(t) ==
    /\ pc[t] = "init"
    /\ row[t] <= Len(table)
    /\ LET i == row[t]
           e == table[i].expr
           k == discriminant(table[i].variant)
       IN  /\ evals' = [evals EXCEPT ![i] = @ + 1]
           /\ counter' = EvalCounter(e, counter)
           /\ IF e.kind = "panic"
              THEN /\ once' = PoisonState
                   /\ m' = [m EXCEPT ![t] = EmptyMap]
                   /\ row' = [row EXCEPT ![t] = 0]
                   /\ pc' = [pc EXCEPT ![t] = "idle"]
                   /\ ret' = [ret EXCEPT ![t] = Panicked("meta", arg[t], "expr")]
                   /\ arg' = [arg EXCEPT ![t] = ColourDecl[1]]
                   /\ UNCHANGED nextAddr
              ELSE /\ m' = [m EXCEPT ![t] = Insert(m[t], k, EvalVal(e, counter))]
                   /\ nextAddr' = IF k \in DOMAIN m[t] THEN nextAddr ELSE nextAddr + 1
                   /\ row' = [row EXCEPT ![t] = i + 1]
                   /\ UNCHANGED <<once, pc, ret, arg>>
    /\ UNCHANGED <<mech, return_type, table, build, ncalls, calls, runs, storage,
                   returned>>

\* The initializer returns m: it becomes $storage, the Once completes and
\* call_once returns to the deref.
LazyInitDone(t) ==
    /\ pc[t] = "init"
    /\ row[t] > Len(table)
    /\ storage' = m[t]
    /\ once' = "COMPLETE"
    /\ m' = [m EXCEPT ![t] = EmptyMap]
    /\ row' = [row EXCEPT ![t] = 0]
    /\ pc' = [pc EXCEPT ![t] = "deref"]
    /\ UNCHANGED <<mech, return_type, table, build, counter, evals, ncalls, calls,
                   runs, nextAddr, arg, ret, returned>>

\* Deref of $storage after its initializer panicked: call_once panics.
LazyPoisoned(t) ==
    /\ pc[t] = "deref"
    /\ once = "POISONED"
    /\ pc' = [pc EXCEPT ![t] = "idle"]
    /\ ret' = [ret EXCEPT ![t] = Panicked("meta", arg[t], "poisoned")]
    /\ arg' = [arg EXCEPT ![t] = ColourDecl[1]]
    /\ UNCHANGED <<mech, return_type, table, build, counter, evals, ncalls, calls,
                   once, runs, m, storage, nextAddr, row, returned>>

\* A variant of LazyGet that takes the entry out of the map.
LazyGetRemove(t) ==
    /\ pc[t] = "deref"
    /\ once = "COMPLETE"
    /\ LET k == discriminant(arg[t])
       IN  /\ k \in DOMAIN storage
           /\ ret' = [ret EXCEPT ![t] =
                         Value("meta", arg[t], storage[k].val, RefOf(k))]
           /\ returned' = returned \cup
                  {[v |-> arg[t], val |-> storage[k].val, ref |-> RefOf(k)]}
           /\ storage' = [j \in DOMAIN storage \ {k} |-> storage[j]]
    /\ pc' = [pc EXCEPT ![t] = "idle"]
    /\ arg' = [arg EXCEPT ![t] = ColourDecl[1]]
    /\ UNCHANGED <<mech, return_type, table, build, counter, evals, ncalls, calls,
                   once, runs, m, nextAddr, row>>

\* Deref of $storage once it is initialized, then
\* $storage.get(&discriminant(&self)).unwrap()
LazyGet(t) ==
    /\ pc[t] = "deref"
    /\ once = "COMPLETE"
    /\ LET k == discriminant(arg[t])
       IN  IF k \in DOMAIN storage
           THEN /\ ret' = [ret EXCEPT ![t] =
                              Value("meta", arg[t], storage[k].val, RefOf(k))]
                /\ returned' = returned \cup
                       {[v |-> arg[t], val |-> storage[k].val, ref |-> RefOf(k)]}
           ELSE /\ ret' = [ret EXCEPT ![t] = Panicked("meta", arg[t], "unwrap")]
                /\ returned' = returned
    /\ pc' = [pc EXCEPT ![t] = "idle"]
    /\ arg' = [arg EXCEPT ![t] = ColourDecl[1]]
    /\ UNCHANGED <<mech, return_type, table, build, counter, evals, ncalls, calls,
                   once, runs, m, storage, nextAddr, row>>

Next ==
    \/ Build
    \/ \E t \in Threads, v \in Colour : Meta(t, v)
    \/ \E t \in Threads : All(t)
    \/ \E t \in Threads, v \in Colour : LazyMeta(t, v)
    \/ \E t \in Threads : LazyInit(t)
    \/ \E t \in Threads : LazyInsert(t)
    \/ \E t \in Threads : LazyInitDone(t)
    \/ \E t \in Threads : LazyPoisoned(t)
    \/ \E t \in Threads : LazyGet(t)

Spec == Init /\ [][Next]_vars

(***************************************************************************)
(* Properties.                                                             *)
(***************************************************************************)

Lazy == mech = "lazy_meta"

Eager == mech = "meta"

\* The rows that name v.
RowsOf(v) == {i \in 1..Len(table) : table[i].variant = v}

FirstRow(v) == CHOOSE i \in RowsOf(v) : \A j \in RowsOf(v) : i <= j

LastRow(v) == CHOOSE i \in RowsOf(v) : \A j \in RowsOf(v) : j <= i

\* The values row i's expression has: one, unless it reads the counter.
RowValues(i) == {EvalVal(table[i].expr, c) : c \in 0..counter}

\* Thread t's last call was a meta call that returned a value.
MetaReturned(t) == ret[t].op = "meta" /\ ret[t].kind = "value"

AllReturned(t) == ret[t].op = "all" /\ ret[t].kind = "value"

\* C1: with meta!, a meta(v) call that returns returns the value of the
\* expression of v's row (the arm the match takes), also when the metadata
\* is a pair of a label and a number.
C1_MetaReturnsRowValue ==
    Eager =>
        \A t \in Threads :
            MetaReturned(t) =>
                /\ RowsOf(ret[t].v) # {}
                /\ ret[t].val \in RowValues(FirstRow(ret[t].v))

C1_Witness ==
    /\ Eager /\ return_type = "pair"
    /\ table = <<[variant |-> "Orange", expr |-> Lit(<<"Orange", 11>>)],
                 [variant |-> "Red", expr |-> Lit(<<"Red", 10>>)]>>
    /\ MetaReturned(1) /\ ret[1].v = "Red" /\ ret[1].val = <<"Red", 10>>
    /\ MetaReturned(2) /\ ret[2].v = "Orange" /\ ret[2].val = <<"Orange", 11>>

\* C2 as stated: all() returns the rows' variants in row order, every variant
\* of the enum is among them, and none occurs twice.
C2_AllNoDuplicates ==
    \A t \in Threads :
        AllReturned(t) =>
            /\ Len(ret[t].val) = Len(table)
            /\ \A i \in 1..Len(table) : ret[t].val[i] = table[i].variant
            /\ \A v \in Colour : \E i \in 1..Len(ret[t].val) : ret[t].val[i] = v
            /\ \A i, j \in 1..Len(ret[t].val) :
                   ret[t].val[i] = ret[t].val[j] => i = j

\* C2, amended: with either macro all() returns one variant per row, in row
\* order, with every variant of the enum among them, whatever meta calls were
\* made before; a variant occurs in it as often as rows name it, so it is free
\* of duplicates exactly when no two rows name the same variant.
C2_AllMirrorsRows ==
    \A t \in Threads :
        AllReturned(t) =>
            /\ Len(ret[t].val) = Len(table)
            /\ \A i \in 1..Len(table) : ret[t].val[i] = table[i].variant
            /\ \A v \in Colour :
                   /\ \E i \in 1..Len(ret[t].val) : ret[t].val[i] = v
                   /\ Cardinality({i \in 1..Len(ret[t].val) : ret[t].val[i] = v})
                          = Cardinality(RowsOf(v))

C2_Witness ==
    /\ Lazy
    /\ AllReturned(1) /\ ret[1].val = <<"Orange", "Red">>
    /\ MetaReturned(2)
    /\ returned # {}

\* C3: with lazy_meta!, no row expression is ever evaluated twice, the
\* initializer is entered at most once, and once the cache exists or a meta
\* call has returned every row expression has been evaluated exactly once.
C3_EvaluatedOnce ==
    Lazy =>
        /\ runs <= 1
        /\ \A i \in 1..Len(table) : evals[i] <= 1
        /\ (once = "COMPLETE" \/ returned # {}) =>
               \A i \in 1..Len(table) : evals[i] = 1

C3_Witness ==
    /\ Lazy /\ once = "COMPLETE" /\ Len(table) = MaxRows
    /\ \A i \in 1..Len(table) : evals[i] = 1
    /\ \E r1, r2 \in returned : r1.v # r2.v
    /\ calls >= 2

\* The keys the populated cache must hold: one per variant the rows name.
TableKeys == {discriminant(table[i].variant) : i \in 1..Len(table)}

\* C4: with lazy_meta! under concurrent first access the initializer is
\* entered at most once and by one thread at a time, $storage is either not
\* yet readable or holds an entry for every variant of the table, a meta call
\* returns only from the complete cache, and all callers asking for one
\* variant get the same value.
C4_PopulatedOnceAndWhole ==
    Lazy =>
        /\ runs <= 1
        /\ Cardinality({t \in Threads : pc[t] = "init"}) <= 1
        /\ (once # "COMPLETE") => (storage = EmptyMap /\ returned = {})
        /\ (once = "COMPLETE") =>
               /\ runs = 1
               /\ DOMAIN storage = TableKeys
               /\ \A i \in 1..Len(table) : evals[i] = 1
        /\ \A t \in Threads : MetaReturned(t) => once = "COMPLETE"
        /\ \A r1, r2 \in returned : r1.v = r2.v => r1.val = r2.val

\* Two callers are inside meta before the cache exists: one populating, with
\* some rows inserted, the other held at the Once.
C4_Witness ==
    /\ Lazy
    /\ \E t1, t2 \in Threads :
           /\ pc[t1] = "init" /\ m[t1] # EmptyMap /\ row[t1] <= Len(table)
           /\ pc[t2] = "deref"

\* C5: with lazy_meta!, every meta(v) call that returns returns the address
\* of an entry of $storage holding the returned value, and all calls on one
\* variant return the same address.
C5_SameReference ==
    Lazy =>
        /\ \A r \in returned :
               \E k \in DOMAIN storage :
                   storage[k].addr = r.ref /\ storage[k].val = r.val
        /\ \A r1, r2 \in returned : r1.v = r2.v => r1.ref = r2.ref
        /\ \A t \in Threads :
               MetaReturned(t) =>
                   \E r \in returned : r.v = ret[t].v /\ r.ref = ret[t].ref

C5_Witness ==
    /\ Lazy
    /\ MetaReturned(1) /\ MetaReturned(2)
    /\ ret[1].v = ret[2].v /\ ret[1].ref = ret[2].ref /\ ret[1].ref # 0
    /\ calls >= 2

\* C6: with lazy_meta!, the populated cache holds one entry per variant the
\* table names, each in a slot of its own, meta(v) returns the value of v's
\* row (the last one naming v), and calls on different variants return
\* different entries even when the values are equal.
C6_KeyedByVariant ==
    Lazy =>
        /\ (once = "COMPLETE") =>
               /\ Cardinality(DOMAIN storage)
                      = Cardinality({table[i].variant : i \in 1..Len(table)})
               /\ \A k1, k2 \in DOMAIN storage :
                      storage[k1].addr = storage[k2].addr => k1 = k2
        /\ \A r \in returned :
               /\ RowsOf(r.v) # {}
               /\ r.val \in RowValues(LastRow(r.v))
        /\ \A r1, r2 \in returned : r1.v # r2.v => r1.ref # r2.ref

C6_Witness ==
    /\ Lazy
    /\ \E r1, r2 \in returned :
           r1.v # r2.v /\ r1.val = r2.val /\ r1.ref # r2.ref

\* C7: with lazy_meta!, a table that omits a variant is rejected when it is
\* built, before any call; a built table names every variant, no meta call
\* fails for want of an entry, and every value returned is one of the
\* variant's own row.
C7_OmissionCaught ==
    Lazy =>
        /\ (build = "built") => \A v \in Colour : RowsOf(v) # {}
        /\ (build = "rejected") =>
               /\ \E v \in Colour : RowsOf(v) = {}
               /\ calls = 0
        /\ \A t \in Threads : ~(ret[t].kind = "panic" /\ ret[t].val = "unwrap")
        /\ \A r \in returned :
               \E i \in RowsOf(r.v) : r.val \in RowValues(i)

C7_Witness ==
    /\ Lazy /\ build = "rejected"
    /\ RowsOf("Red") # {} /\ RowsOf("Orange") = {}

\* C8: with lazy_meta!, a row expression that panics during population
\* leaves the Once poisoned; from then on the Once stays poisoned, the
\* initializer is not entered again, no expression is evaluated, $storage
\* stays unset, no meta call returns a value, and a meta call that ends has
\* panicked.
C8_PoisonedForGood ==
    [][ Lazy =>
          /\ (\E i \in 1..Len(table) :
                 evals'[i] > evals[i] /\ table[i].expr.kind = "panic")
                 => once' = "POISONED"
          /\ (once = "POISONED") =>
                 /\ once' = "POISONED"
                 /\ evals' = evals /\ runs' = runs
                 /\ storage' = EmptyMap /\ returned' = {}
                 /\ \A t \in Threads : pc'[t] # "init"
                 /\ \A t \in Threads :
                        (pc[t] = "deref" /\ pc'[t] = "idle")
                            => ret'[t].kind = "panic"
      ]_vars

C8_Witness ==
    /\ Lazy /\ once = "POISONED"
    /\ ret[1].kind = "panic" /\ ret[1].val = "expr"
    /\ ret[2].kind = "panic" /\ ret[2].val = "poisoned"
    /\ \E i \in 1..Len(table) : evals[i] = 1 /\ table[i].expr.kind # "panic"

\* C9: with lazy_meta!, once $storage is populated no step changes it or
\* the state of its Once.
C9_ReadOnlyAfterPopulation ==
    [][ (Lazy /\ once = "COMPLETE") =>
            (storage' = storage /\ once' = "COMPLETE") ]_vars

C9_Witness ==
    /\ Lazy /\ once = "COMPLETE" /\ storage # EmptyMap
    /\ MetaReturned(1) /\ AllReturned(2)
    /\ \A t \in Threads : pc[t] = "idle"

\* C10 as stated: with meta!, each meta(v) call evaluates the expression of
\* v's row and no other, and all meta(v) calls return the same value
\* whatever calls were made before.
C10_MetaPure ==
    Eager =>
        /\ \A v \in Colour :
               RowsOf(v) # {} =>
                   /\ evals[FirstRow(v)] = ncalls[v]
                   /\ \A i \in RowsOf(v) \ {FirstRow(v)} : evals[i] = 0
        /\ \A r1, r2 \in returned : r1.v = r2.v => r1.val = r2.val

\* C10, amended: with meta!, each meta(v) call evaluates the expression of
\* v's row (the arm the match takes) and no other, the mechanism keeps no
\* state of its own, every meta(v) call returns a value of v's row
\* expression, and all meta(v) calls return the same value when that
\* expression does not read state that changes.
C10_MetaFresh ==
    Eager =>
        /\ \A v \in Colour :
               RowsOf(v) # {} =>
                   /\ evals[FirstRow(v)] = ncalls[v]
                   /\ \A i \in RowsOf(v) \ {FirstRow(v)} : evals[i] = 0
        /\ once = "INCOMPLETE" /\ storage = EmptyMap /\ runs = 0
        /\ \A r \in returned : r.val \in RowValues(FirstRow(r.v))
        /\ \A r1, r2 \in returned :
               (r1.v = r2.v /\ table[FirstRow(r1.v)].expr.kind # "counted")
                   => r1.val = r2.val

C10_Witness ==
    /\ Eager
    /\ \E v \in Colour :
           /\ RowsOf(v) # {}
           /\ ncalls[v] = 2 /\ evals[FirstRow(v)] = 2
           /\ table[FirstRow(v)].expr.kind = "format"
           /\ MetaReturned(1) /\ MetaReturned(2)
           /\ ret[1].v = v /\ ret[2].v = v
====
